---------------------------- MODULE Spec2Model ----------------------------
(***************************************************************************)
(* Mars lander: the mechanical simulation functions of lander.cpp          *)
(* (autopilot, numerical_dynamics, initialize_simulation).                 *)
(*                                                                         *)
(* Numbers.  The program computes in double; the model computes in exact   *)
(* rational arithmetic.  A scalar is a pair <<n, d>> with d > 0 and        *)
(* gcd(n, d) = 1; a vector3d is a triple of scalars.  Quantities are in    *)
(* the units of the source (m, s, kg, N).                                  *)
(***************************************************************************)
EXTENDS Integers, Sequences, FiniteSets, TLC

\* ------------------------------------------------------------ rationals

IAbs(i) == IF i < 0 THEN -i ELSE i

RECURSIVE GCD(_, _)
GCD(m, n) == IF n = 0 THEN m ELSE GCD(n, m % n)

\* The scalar n/d, normalised (d /= 0).
Q(n, d) ==
  IF d < 0
  THEN <<(-n) \div GCD(IAbs(n), -d), (-d) \div GCD(IAbs(n), -d)>>
  ELSE <<n \div GCD(IAbs(n), d), d \div GCD(IAbs(n), d)>>

R(i) == <<i, 1>>

QAdd(x, y) == Q(x[1] * y[2] + y[1] * x[2], x[2] * y[2])
QNeg(x)    == <<-x[1], x[2]>>
QSub(x, y) == Q(x[1] * y[2] - y[1] * x[2], x[2] * y[2])
QMul(x, y) ==
  LET g1 == GCD(IAbs(x[1]), y[2])
      g2 == GCD(IAbs(y[1]), x[2])
  IN  Q((x[1] \div g1) * (y[1] \div g2), (x[2] \div g2) * (y[2] \div g1))
QInv(x)    == Q(x[2], x[1])
QDiv(x, y) == Q(x[1] * y[2], x[2] * y[1])
QLt(x, y)  == x[1] * y[2] < y[1] * x[2]
QLe(x, y)  == x[1] * y[2] <= y[1] * x[2]
QAbs(x)    == <<IAbs(x[1]), x[2]>>

\* ------------------------------------------------------------- vector3d

V(x, y, z)   == <<R(x), R(y), R(z)>>
Zero3        == V(0, 0, 0)
VAdd(u, v)   == <<QAdd(u[1], v[1]), QAdd(u[2], v[2]), QAdd(u[3], v[3])>>
VSub(u, v)   == <<QSub(u[1], v[1]), QSub(u[2], v[2]), QSub(u[3], v[3])>>
VScale(k, v) == <<QMul(k, v[1]), QMul(k, v[2]), QMul(k, v[3])>>
Dot(u, v)    == QAdd(QAdd(QMul(u[1], v[1]), QMul(u[2], v[2])), QMul(u[3], v[3]))

\* The six unit vectors along the axes.
Axes == {V(1, 0, 0), V(-1, 0, 0), V(0, 1, 0), V(0, -1, 0), V(0, 0, 1), V(0, 0, -1)}

\* vector3d::abs().  The square root is exact for a vector along an axis,
\* which is every vector the autopilot sees (the descents start on the y
\* axis at rest and every force keeps them there).  Off the axes (the
\* orbits, whose autopilot is off) the largest component stands for the
\* length.
VAbs(v) ==
  CHOOSE c \in {QAbs(v[1]), QAbs(v[2]), QAbs(v[3])} :
    \A o \in {QAbs(v[1]), QAbs(v[2]), QAbs(v[3])} : QLe(o, c)

\* vector3d::norm(): the unit vector; a vector of length 0 is returned as it
\* is.  Exact along an axis; off the axes, the unit vector of the largest
\* component.
VNorm(v) ==
  LET m == VAbs(v)
  IN  IF m = R(0) THEN v ELSE CHOOSE u \in Axes : Dot(u, v) = m

\* ------------------------------------------------------------- lander.h
\* Constants of lander.h, which lander.cpp includes.

MARS_RADIUS         == 3386000
EXOSPHERE           == 200000
LANDER_SIZE         == 1
UNLOADED_LANDER_MASS == 100
FUEL_CAPACITY       == 100
FUEL_DENSITY        == 1
\* 1.5 * (FUEL_DENSITY*FUEL_CAPACITY + UNLOADED_LANDER_MASS) * surface gravity,
\* with the surface gravity rounded to 4 m/s^2.
MAX_THRUST          == 1200

NOT_DEPLOYED == "NOT_DEPLOYED"
DEPLOYED     == "DEPLOYED"
LOST         == "LOST"

\* --------------------------------------------------------------- bounds

\* numerical_dynamics calls in a behaviour, and initialize_simulation calls.
MaxCalls == 5
MaxRuns  == 2
\* The time step in seconds.  The scenarios of the source all set 0.1; the
\* model steps coarsely so that a descent crosses the engagement altitude
\* within MaxCalls calls.
TimeStep == 20

\* The scenarios initialize_simulation has a case for.
Scenarios == 0..5

\* What the collaborators outside lander.cpp may return: |g_force| in N (the
\* weight of the fuelled lander, 200 kg, near the surface), the lander's drag
\* and the parachute's drag in N.
GMags     == {800}
DragMags  == {0, 200}
ChuteMags == {1600}
\* throttle values the driver may hold when a scenario starts.
StartThrottles == {R(0), R(1)}

\* ---------------------------------------------------------------- state

VARIABLES
  \* lander.h globals this file reads and writes
  scenario, position, velocity, orientation, delta_t, fuel, throttle,
  parachute_status, stabilized_attitude, autopilot_enabled,
  \* lander.cpp globals (lines 18-20)
  system_engaged, initial_altitude, first_iteration,
  \* function-local statics: autopilot's (line 25), numerical_dynamics's (line 82)
  vel_engaged, previous_position,
  \* history: the latest operation and what it was given (see Call)
  call,
  \* history: what the current scenario run started with, and whether
  \* safe_to_deploy_parachute() has returned true, and false, in it (see
  \* NewRun)
  run,
  \* the same lander in a program that has only just started: given the same
  \* scenario, throttle and collaborator outputs from each
  \* initialize_simulation on (see Fresh and TwinDynamics)
  twin,
  \* history: numerical_dynamics calls since the latest initialize_simulation,
  \* and in the whole behaviour; initialize_simulation calls
  n, total, runs

vars == <<scenario, position, velocity, orientation, delta_t, fuel, throttle,
          parachute_status, stabilized_attitude, autopilot_enabled,
          system_engaged, initial_altitude, first_iteration,
          vel_engaged, previous_position, call, run, n, total, runs, twin>>

\* ------------------------------------------------------------ autopilot

\* Line 28.
Kp == Q(5, 100)

\* Line 29: h = position.abs() - MARS_RADIUS.
Altitude(pos) == QSub(VAbs(pos), R(MARS_RADIUS))

\* Line 30: alt_engage = initial_altitude * 0.5.
AltEngage(ia) == QMul(ia, Q(5, 10))

\* Line 31: weight_throttle = g_force / MAX_THRUST.
WeightThrottle(g) == QDiv(g, R(MAX_THRUST))

\* Line 32: vel_radial = velocity * position.norm().
VelRadial(vel, pos) == Dot(vel, VNorm(pos))

\* Line 33: chute_engage = alt_engage - (initial_altitude - 10000) / 1.943.
ChuteEngage(ia) ==
  QSub(AltEngage(ia), QDiv(QSub(ia, R(10000)), Q(1943, 1000)))

\* Lines 35-37: whether the call asks safe_to_deploy_parachute().
AsksSafeM1(h, ia, status) == QLt(h, ChuteEngage(ia)) /\ status /= DEPLOYED
AsksSafe(h, ia, status) == QLt(h, ChuteEngage(ia)) /\ status = NOT_DEPLOYED

\* Lines 35-41: the parachute.  safe is what safe_to_deploy_parachute()
\* returns if it is called.
ParachuteM2(h, ia, status, safe) == status
ParachuteM1(h, ia, status, safe) ==
  IF AsksSafe(h, ia, status) THEN DEPLOYED ELSE status
Parachute(h, ia, status, safe) ==
  IF AsksSafe(h, ia, status)
  THEN (IF safe THEN DEPLOYED ELSE status)
  ELSE status

\* Line 55: Kh = -((0.7) * (1 / Kp) + 0.5 + vel_engaged) / alt_engage.
Kh(ve, ia) ==
  QDiv(QNeg(QAdd(QAdd(QMul(Q(7, 10), QDiv(R(1), Kp)), Q(5, 10)), ve)),
       AltEngage(ia))

\* Line 56: e = -(0.5 + Kh * h + vel_radial).
Err(kh, h, vr) == QNeg(QAdd(QAdd(Q(5, 10), QMul(kh, h)), vr))

\* Line 57: power_output = Kp * e.
PowerOutput(e) == QMul(Kp, e)

\* Lines 59-69: the throttle the engaged autopilot leaves, thr being the
\* throttle before.  The first if (lines 59-61) leaves t1; it is followed by
\* an if/else of its own (lines 63-69), both branches of which write throttle
\* whatever t1 is.
ThrottleLawM1(po, wt, thr) ==
  IF QLe(po, QNeg(wt)) THEN R(0)
  ELSE IF QLt(QNeg(wt), po) THEN QAdd(wt, po)
  ELSE R(1)
ThrottleLaw(po, wt, thr) ==
  LET t1 == IF QLe(po, QNeg(wt)) THEN R(0) ELSE thr
  IN  IF QLt(QNeg(wt), po) /\ QLt(po, QSub(R(1), wt))
      THEN QAdd(wt, po)
      ELSE R(1)

\* Lines 44-71: system_engaged, vel_engaged and throttle after the call; po
\* is the power_output of lines 55-57, which only the engaged branch computes.
Engage(engaged, h, ia) == engaged \/ QLt(h, AltEngage(ia))

EngagedVelM1(engaged, ve, h, ia, vr) ==
  IF QLt(h, AltEngage(ia)) THEN vr ELSE ve
EngagedVel(engaged, ve, h, ia, vr) ==
  IF ~engaged /\ QLt(h, AltEngage(ia)) THEN vr ELSE ve

AutoThrottleM1(engaged, h, ia, po, wt, thr) ==
  IF engaged \/ QLt(h, AltEngage(ia)) THEN ThrottleLaw(po, wt, thr) ELSE thr
AutoThrottleM2(engaged, h, ia, po, wt, thr) == ThrottleLaw(po, wt, thr)
AutoThrottle(engaged, h, ia, po, wt, thr) ==
  IF ~engaged THEN thr ELSE ThrottleLaw(po, wt, thr)

\* --------------------------------------------------- numerical_dynamics

\* Line 85: mass = UNLOADED_LANDER_MASS + fuel * FUEL_DENSITY * FUEL_CAPACITY.
Mass(f) ==
  QAdd(R(UNLOADED_LANDER_MASS), QMul(f, R(FUEL_DENSITY * FUEL_CAPACITY)))

\* Line 86: g_force, of magnitude gm (GRAVITY * MARS_MASS * mass / |position|^2,
\* whose constants are lander.h's), towards the planet's centre.
GForce(gm, pos) == VScale(R(-gm), VNorm(pos))

\* Line 87: the lander's drag, of magnitude dl (which holds the density that
\* atmospheric_density returns), against the velocity.
LanderDrag(dl, vel) == VScale(R(-dl), VNorm(vel))

\* Lines 90-92: the drag with the parachute's share, of magnitude dc.
DForceM1(dl, dc, vel, status) ==
  VAdd(LanderDrag(dl, vel), VScale(R(-dc), VNorm(vel)))
DForce(dl, dc, vel, status) ==
  IF status = DEPLOYED
  THEN VAdd(LanderDrag(dl, vel), VScale(R(-dc), VNorm(vel)))
  ELSE LanderDrag(dl, vel)

\* Line 88: thrust_wrt_world(), a collaborator: MAX_THRUST * throttle along
\* the lander's axis, here upright, and nothing without fuel.  A throttle
\* strictly between 0 and 1 gives half of MAX_THRUST.
ThrustWrtWorld(thr, f, pos) ==
  LET m == IF thr = R(0) \/ f = R(0) THEN 0
           ELSE IF thr = R(1) THEN MAX_THRUST
           ELSE MAX_THRUST \div 2
  IN  VScale(R(m), VNorm(pos))

\* Line 94: a = (g_force + d_force + t_force) / mass.
Accel(g, d, t, m) == VScale(QInv(m), VAdd(VAdd(g, d), t))

\* Lines 103-115, position: the bootstrap step and the steady-state step.
VerletPositionM1(first, pos, vel, prev, a, dt) ==
  IF first = 1
  THEN VAdd(VAdd(pos, VScale(dt, vel)), VScale(QMul(dt, dt), a))
  ELSE VAdd(VSub(VScale(R(2), pos), prev), VScale(QMul(dt, dt), a))
VerletPosition(first, pos, vel, prev, a, dt) ==
  IF first = 1
  THEN VAdd(VAdd(pos, VScale(dt, vel)),
            VScale(QMul(Q(5, 10), QMul(dt, dt)), a))
  ELSE VAdd(VSub(VScale(R(2), pos), prev), VScale(QMul(dt, dt), a))

\* Lines 104 and 111-113: previous_position after the call is the position
\* before it, in both branches.
VerletPreviousM1(first, pos, prev) == IF first = 1 THEN prev ELSE pos
VerletPreviousM2(first, pos, prev) == IF first = 1 THEN pos ELSE prev
VerletPrevious(first, pos, prev) == pos

\* Lines 106 and 114, with the new position and the new previous_position:
\* velocity = (2 * position - previous_position + a * delta_t * delta_t
\*             - previous_position) * 0.5 * 1 / delta_t.
VerletVelocityM1(newpos, newprev, a, dt) ==
  VScale(QDiv(Q(5, 10), dt),
         VSub(VSub(VScale(R(2), newpos), newprev), newprev))
VerletVelocity(newpos, newprev, a, dt) ==
  VScale(QDiv(Q(5, 10), dt),
         VSub(VAdd(VSub(VScale(R(2), newpos), newprev),
                   VScale(QMul(dt, dt), a)),
              newprev))

\* Lines 104-107: first_iteration after the call.
VerletFirstM1(first) == first
VerletFirst(first) == IF first = 1 THEN 0 ELSE first

\* Lines 118 and 121: whether the call runs the autopilot and the stabilizer.
RunsAutopilotM1(enabled) == TRUE
RunsAutopilot(enabled) == enabled
RunsStabilizerM1(stabilized) == TRUE
RunsStabilizer(stabilized) == stabilized

\* attitude_stabilization(), a collaborator: the orientation that points the
\* base at the planet, for a lander on the negative y axis as in the two
\* scenarios that stabilize.
AttitudeStabilization(pos, orient) == V(0, 0, 90)

\* What call records of the latest operation: which it was; for
\* numerical_dynamics, whether autopilot_enabled and stabilized_attitude were
\* set, what system_engaged, throttle, parachute_status, first_iteration,
\* position (pos0), velocity (vel0) and previous_position (prev0) were on
\* entry, |g_force|, the drag d_force, the net acceleration a, what
\* safe_to_deploy_parachute() returned ("none" when it was not called), the
\* altitude h and the radial velocity vr on the position and velocity the
\* integration left (lines 29 and 32), the power_output the engaged autopilot
\* computed, and in before the same of the call before it
\* (<<engaged, |g_force|, power_output>>).
Call(op, ap, stab, engaged, thr0, status0, g, d, safe, a, first, pos0, vel0, prev0, h, vr, po, before) ==
  [op |-> op, ap |-> ap, stab |-> stab, engaged |-> engaged,
   throttle0 |-> thr0, status0 |-> status0, g |-> g, d |-> d, safe |-> safe,
   a |-> a, first |-> first, position0 |-> pos0, velocity0 |-> vel0,
   previous0 |-> prev0, h |-> h, vr |-> vr, po |-> po, before |-> before]

\* numerical_dynamics(), lines 76-122, given what the collaborators return:
\* gm, dl, dc size the forces and safe is safe_to_deploy_parachute().
NumericalDynamics(gm, dl, dc, safe) ==
  \* lines 84-94: the locals, each computed once from the globals
  \E g_force \in {GForce(gm, position)},
     d_force \in {DForce(dl, dc, velocity, parachute_status)},
     t_force \in {ThrustWrtWorld(throttle, fuel, position)} :
  \E a \in {Accel(g_force, d_force, t_force, Mass(fuel))} :
      /\ total < MaxCalls
      \* lines 103-115: the integrator writes the globals
      /\ position' = VerletPosition(first_iteration, position, velocity,
                                    previous_position, a, delta_t)
      /\ previous_position' =
           VerletPrevious(first_iteration, position, previous_position)
      /\ velocity' = VerletVelocity(position', previous_position', a, delta_t)
      /\ first_iteration' = VerletFirst(first_iteration)
      \* line 118: autopilot(g_force.abs(), mass), lines 22-73, reads them
      /\ \E h \in {Altitude(position')},
            vel_radial \in {VelRadial(velocity', position')},
            weight_throttle \in {WeightThrottle(VAbs(g_force))},
            kh \in {IF RunsAutopilot(autopilot_enabled) /\ system_engaged
                    THEN Kh(vel_engaged, initial_altitude) ELSE R(0)} :
         \E e \in {Err(kh, h, vel_radial)} :
         \E power_output \in {IF RunsAutopilot(autopilot_enabled)
                                 /\ system_engaged
                              THEN PowerOutput(e) ELSE R(0)} :
         LET asks == RunsAutopilot(autopilot_enabled)
                     /\ AsksSafe(h, initial_altitude, parachute_status)
         IN  /\ safe \in (IF asks THEN BOOLEAN ELSE {FALSE})
             /\ IF RunsAutopilot(autopilot_enabled)
                THEN /\ parachute_status' =
                          Parachute(h, initial_altitude, parachute_status,
                                    safe)
                     /\ system_engaged' =
                          Engage(system_engaged, h, initial_altitude)
                     /\ vel_engaged' =
                          EngagedVel(system_engaged, vel_engaged, h,
                                     initial_altitude, vel_radial)
                     /\ throttle' =
                          AutoThrottle(system_engaged, h, initial_altitude,
                                       power_output, weight_throttle,
                                       throttle)
                ELSE UNCHANGED <<parachute_status, system_engaged,
                                 vel_engaged, throttle>>
             /\ call' = Call("numerical_dynamics", autopilot_enabled,
                             stabilized_attitude, system_engaged, throttle,
                             parachute_status, VAbs(g_force), d_force,
                             IF asks THEN (IF safe THEN "true" ELSE "false")
                             ELSE "none",
                             a, first_iteration, position, velocity,
                             previous_position, h, vel_radial,
                             power_output,
                             <<call.ap /\ call.engaged, call.g, call.po>>)
             /\ run' = [run EXCEPT !.ever_safe = @ \/ (asks /\ safe),
                                   !.ever_failed = @ \/ (asks /\ ~safe)]
      \* line 121: attitude_stabilization()
      /\ orientation' = IF RunsStabilizer(stabilized_attitude)
                        THEN AttitudeStabilization(position', orientation)
                        ELSE orientation
      /\ n' = n + 1
      /\ total' = total + 1
      /\ UNCHANGED <<scenario, delta_t, fuel, stabilized_attitude,
                     autopilot_enabled, initial_altitude, runs>>

\* ------------------------------------------------ initialize_simulation

\* Lines 147-213: what each case of the switch sets.  Line 150's velocity,
\* 3247.087385863725, is cut to whole m/s.
ScenarioPosition(s) ==
  CASE s = 0 -> V((12 * MARS_RADIUS) \div 10, 0, 0)
    [] s = 1 -> V(0, -(MARS_RADIUS + 10000), 0)
    [] s = 2 -> V(0, 0, (12 * MARS_RADIUS) \div 10)
    [] s = 3 -> <<R(0), R(0), QAdd(R(MARS_RADIUS), Q(LANDER_SIZE, 2))>>
    [] s = 4 -> V(0, 0, MARS_RADIUS + 100000)
    [] s = 5 -> V(0, -(MARS_RADIUS + EXOSPHERE), 0)

ScenarioVelocity(s) ==
  CASE s = 0 -> V(0, -3247, 0)
    [] s = 1 -> V(0, 0, 0)
    [] s = 2 -> V(3500, 0, 0)
    [] s = 3 -> V(0, 0, 5027)
    [] s = 4 -> V(4000, 0, 0)
    [] s = 5 -> V(0, 0, 0)

ScenarioOrientation(s) ==
  CASE s = 0 -> V(0, 90, 0)
    [] s = 1 -> V(0, 0, 90)
    [] s = 2 -> V(0, 0, 90)
    [] s = 3 -> V(0, 0, 0)
    [] s = 4 -> V(0, 90, 0)
    [] s = 5 -> V(0, 0, 90)

\* stabilized_attitude and autopilot_enabled: true in cases 1 and 5 only.
ScenarioStabilized(s) == s \in {1, 5}
ScenarioAutopilot(s)  == s \in {1, 5}

\* Lines 167 and 212: cases 1 and 5 set initial_altitude; no other case
\* writes it, so it keeps the value ia it had.
InitialAltitude(s, ia) ==
  IF s \in {1, 5} THEN Altitude(ScenarioPosition(s)) ELSE ia

\* What run records when a scenario run starts: the throttle, position and
\* velocity it starts with, and whether the statics vel_engaged and
\* previous_position both still hold values, ve and prev, written by
\* whatever was simulated before.
NewRun(thr0, pos0, vel0, ve, prev) ==
  [throttle0 |-> thr0, position0 |-> pos0, velocity0 |-> vel0,
   stale |-> (ve /= R(0) /\ prev /= Zero3),
   ever_safe |-> FALSE, ever_failed |-> FALSE]

\* The lander after initialize_simulation() for scenario s as the first thing
\* a program does: the statics and initial_altitude are zero-initialised
\* (lines 19, 25, 82) where the scenario does not set them.
Fresh(s, thr) ==
  [position |-> ScenarioPosition(s), velocity |-> ScenarioVelocity(s),
   throttle |-> thr, parachute_status |-> NOT_DEPLOYED,
   system_engaged |-> FALSE, first_iteration |-> 1,
   initial_altitude |-> InitialAltitude(s, R(0)),
   vel_engaged |-> R(0), previous_position |-> Zero3]

NoCall(op) ==
  Call(op, FALSE, FALSE, FALSE, R(0), NOT_DEPLOYED, R(0), Zero3, "none",
       Zero3, 1, Zero3, Zero3, Zero3, R(0), R(0), R(0),
       <<FALSE, R(0), R(0)>>)

\* initialize_simulation(), lines 124-216, for the scenario s the driver has
\* selected.  throttle and fuel are the driver's to reset.
InitializeSimulation(s) ==
  /\ runs < MaxRuns
  /\ scenario' = s
  /\ first_iteration' = 1
  /\ system_engaged' = FALSE
  /\ position' = ScenarioPosition(s)
  /\ velocity' = ScenarioVelocity(s)
  /\ orientation' = ScenarioOrientation(s)
  /\ delta_t' = R(TimeStep)
  /\ parachute_status' = NOT_DEPLOYED
  /\ stabilized_attitude' = ScenarioStabilized(s)
  /\ autopilot_enabled' = ScenarioAutopilot(s)
  /\ initial_altitude' = InitialAltitude(s, initial_altitude)
  /\ call' = NoCall("initialize_simulation")
  /\ run' = NewRun(throttle, ScenarioPosition(s), ScenarioVelocity(s),
                   vel_engaged, previous_position)
  /\ twin' = Fresh(s, throttle)
  /\ n' = 0
  /\ runs' = runs + 1
  /\ UNCHANGED <<fuel, throttle, vel_engaged, previous_position, total>>

\* The driver's over-speed check, a collaborator (lander_graphics.cpp): a
\* deployed parachute may be lost.
ParachuteLost ==
  /\ parachute_status = DEPLOYED
  /\ parachute_status' = LOST
  /\ call' = NoCall("parachute_lost")
  /\ UNCHANGED <<scenario, position, velocity, orientation, delta_t, fuel,
                 throttle, stabilized_attitude, autopilot_enabled,
                 system_engaged, initial_altitude, first_iteration,
                 vel_engaged, previous_position, run, n, total, runs>>
  /\ twin' = [twin EXCEPT !.parachute_status =
                            IF @ = DEPLOYED THEN LOST ELSE @]

\* The state after the program's first initialize_simulation(): the globals
\* and statics are zero-initialised (lines 18-20, 25, 82) and the driver has
\* selected a scenario and a throttle.
Init ==
  \E s \in Scenarios, t \in StartThrottles :
    /\ scenario = s
    /\ first_iteration = 1
    /\ system_engaged = FALSE
    /\ position = ScenarioPosition(s)
    /\ velocity = ScenarioVelocity(s)
    /\ orientation = ScenarioOrientation(s)
    /\ delta_t = R(TimeStep)
    /\ parachute_status = NOT_DEPLOYED
    /\ stabilized_attitude = ScenarioStabilized(s)
    /\ autopilot_enabled = ScenarioAutopilot(s)
    /\ initial_altitude = InitialAltitude(s, R(0))
    /\ fuel = R(1)
    /\ throttle = t
    /\ vel_engaged = R(0)
    /\ previous_position = Zero3
    /\ call = NoCall("initialize_simulation")
    /\ run = NewRun(t, ScenarioPosition(s), ScenarioVelocity(s), R(0),
                    Zero3)
    /\ twin = Fresh(s, t)
    /\ n = 0
    /\ total = 0
    /\ runs = 1

\* numerical_dynamics(), lines 76-122, on the lander t, with the outputs the
\* collaborators gave the call on the globals; t2 is t after the call.
TwinDynamics(t, gm, dl, dc, safe, t2) ==
  \E g_force \in {GForce(gm, t.position)},
     d_force \in {DForce(dl, dc, t.velocity, t.parachute_status)},
     t_force \in {ThrustWrtWorld(t.throttle, fuel, t.position)} :
  \E a \in {Accel(g_force, d_force, t_force, Mass(fuel))} :
  \E pos \in {VerletPosition(t.first_iteration, t.position, t.velocity,
                             t.previous_position, a, delta_t)},
     prev \in {VerletPrevious(t.first_iteration, t.position,
                              t.previous_position)} :
  \E vel \in {VerletVelocity(pos, prev, a, delta_t)} :
  \E h \in {Altitude(pos)}, weight_throttle \in {WeightThrottle(VAbs(g_force))},
     ap \in {RunsAutopilot(autopilot_enabled)} :
  \E vel_radial \in {VelRadial(vel, pos)},
     kh \in {IF ap /\ t.system_engaged
             THEN Kh(t.vel_engaged, t.initial_altitude) ELSE R(0)} :
  \E e \in {Err(kh, h, vel_radial)} :
  \E power_output \in {IF ap /\ t.system_engaged THEN PowerOutput(e)
                       ELSE R(0)} :
    t2 = [position |-> pos, velocity |-> vel, previous_position |-> prev,
          first_iteration |-> VerletFirst(t.first_iteration),
          initial_altitude |-> t.initial_altitude,
          parachute_status |->
            IF ap THEN Parachute(h, t.initial_altitude, t.parachute_status,
                                 safe)
            ELSE t.parachute_status,
          system_engaged |->
            IF ap THEN Engage(t.system_engaged, h, t.initial_altitude)
            ELSE t.system_engaged,
          vel_engaged |->
            IF ap THEN EngagedVel(t.system_engaged, t.vel_engaged, h,
                                  t.initial_altitude, vel_radial)
            ELSE t.vel_engaged,
          throttle |->
            IF ap THEN AutoThrottle(t.system_engaged, h, t.initial_altitude,
                                    power_output, weight_throttle, t.throttle)
            ELSE t.throttle]

\* One time step of the driver: the collaborators' outputs are the same for
\* the lander in the globals and for twin.
Step ==
  \E gm \in GMags, dl \in DragMags, dc \in ChuteMags,
     safe \in BOOLEAN :
    /\ NumericalDynamics(gm, dl, dc, safe)
    /\ TwinDynamics(twin, gm, dl, dc, safe, twin')

Reinitialize == \E s \in Scenarios : InitializeSimulation(s)

Next == Step \/ Reinitialize \/ ParachuteLost

Spec == Init /\ [][Next]_vars

\* --------------------------------------------- a run after an earlier run
\* What an earlier scenario-1 descent leaves behind: started at throttle 0
\* under |g_force| 800 and no drag, its third call engages the autopilot,
\* and Spec reaches the state with these values of vel_engaged (line 25),
\* previous_position (line 82) and initial_altitude (line 19).
StaleVelEngaged == R(-240)
StalePrevious == V(0, -(MARS_RADIUS + 6800), 0)
StaleAltitude == R(10000)

\* The state after the initialize_simulation() that follows that descent,
\* for any scenario; total and runs count from here.
InitTwin ==
  \E s \in Scenarios :
    /\ scenario = s
    /\ first_iteration = 1
    /\ system_engaged = FALSE
    /\ position = ScenarioPosition(s)
    /\ velocity = ScenarioVelocity(s)
    /\ orientation = ScenarioOrientation(s)
    /\ delta_t = R(TimeStep)
    /\ parachute_status = NOT_DEPLOYED
    /\ stabilized_attitude = ScenarioStabilized(s)
    /\ autopilot_enabled = ScenarioAutopilot(s)
    /\ initial_altitude = InitialAltitude(s, StaleAltitude)
    /\ fuel = R(1)
    /\ throttle = R(0)
    /\ vel_engaged = StaleVelEngaged
    /\ previous_position = StalePrevious
    /\ call = NoCall("initialize_simulation")
    /\ run = NewRun(R(0), ScenarioPosition(s), ScenarioVelocity(s),
                    StaleVelEngaged, StalePrevious)
    /\ twin = Fresh(s, R(0))
    /\ n = 0
    /\ total = 0
    /\ runs = 1

SpecTwin == InitTwin /\ [][Next]_vars

\* ------------------------------------------- the integrator on its own
\* Lines 103-115 under a constant net acceleration: the lander starts at rest
\* at p0 and every call is given the same a (kept in call.a).

KinPositions == {Zero3, V(0, -(MARS_RADIUS + 10000), 0), V(100, 0, -50)}
KinAccels    == {V(0, 4, 0), V(0, -3, 0), V(1, 0, -2),
                 <<Q(1, 2), Q(-1, 3), R(0)>>}
KinSteps     == {Q(1, 2), R(1), R(TimeStep)}

\* The lander at p0 with velocity v0 and time step dt, before the first call,
\* with a the acceleration every call is given.
KinStart(p0, v0, a, dt) ==
  /\ scenario = 1
  /\ first_iteration = 1
  /\ system_engaged = FALSE
  /\ position = p0
  /\ velocity = v0
  /\ orientation = ScenarioOrientation(1)
  /\ delta_t = dt
  /\ parachute_status = NOT_DEPLOYED
  /\ stabilized_attitude = FALSE
  /\ autopilot_enabled = FALSE
  /\ initial_altitude = R(0)
  /\ fuel = R(1)
  /\ throttle = R(0)
  /\ vel_engaged = R(0)
  /\ previous_position = Zero3
  /\ call = [NoCall("initialize_simulation") EXCEPT !.a = a]
  /\ run = NewRun(R(0), p0, v0, R(0), Zero3)
  /\ twin = Fresh(1, R(0))
  /\ n = 0
  /\ total = 0
  /\ runs = 1

InitKin ==
  \E p0 \in KinPositions, a \in KinAccels, dt \in KinSteps :
    KinStart(p0, Zero3, a, dt)

\* One pass through lines 103-115 with the acceleration call.a.
KinStep ==
  /\ total < MaxCalls
  /\ position' = VerletPosition(first_iteration, position, velocity,
                                previous_position, call.a, delta_t)
  /\ previous_position' =
       VerletPrevious(first_iteration, position, previous_position)
  /\ velocity' = VerletVelocity(position', previous_position', call.a,
                                delta_t)
  /\ first_iteration' = VerletFirst(first_iteration)
  /\ call' = [call EXCEPT !.op = "numerical_dynamics",
                          !.first = first_iteration,
                          !.position0 = position]
  /\ n' = n + 1
  /\ total' = total + 1
  /\ UNCHANGED <<scenario, orientation, delta_t, fuel, throttle,
                 parachute_status, stabilized_attitude, autopilot_enabled,
                 system_engaged, initial_altitude, vel_engaged, run, runs,
                 twin>>

NextKin == KinStep

SpecKin == InitKin /\ [][NextKin]_vars

\* The same with an initial velocity v0.
KinVelocities == {Zero3, V(0, 10, 0), V(3, -2, 0), <<Q(1, 2), R(0), Q(-7, 3)>>}

InitVel ==
  \E p0 \in KinPositions, v0 \in KinVelocities, a \in KinAccels,
     dt \in KinSteps :
    KinStart(p0, v0, a, dt)

SpecVel == InitVel /\ [][NextKin]_vars

\* ------------------------------------------ the throttle law on its own
\* Lines 53-71 for an autopilot that is engaged: every call is given a
\* power_output po of LawPowers, under a fixed |g_force| (kept in call.g).

LawPowers    == {Q(k, 10) : k \in -12..12}
LawGravities == {400, 800}

InitLaw ==
  \E g \in LawGravities, t \in StartThrottles :
    /\ scenario = 1
    /\ first_iteration = 0
    /\ system_engaged = TRUE
    /\ position = ScenarioPosition(1)
    /\ velocity = ScenarioVelocity(1)
    /\ orientation = ScenarioOrientation(1)
    /\ delta_t = R(TimeStep)
    /\ parachute_status = NOT_DEPLOYED
    /\ stabilized_attitude = TRUE
    /\ autopilot_enabled = TRUE
    /\ initial_altitude = InitialAltitude(1, R(0))
    /\ fuel = R(1)
    /\ throttle = t
    /\ vel_engaged = R(0)
    /\ previous_position = ScenarioPosition(1)
    /\ call = [NoCall("initialize_simulation") EXCEPT !.g = R(g)]
    /\ run = NewRun(t, ScenarioPosition(1), ScenarioVelocity(1), R(0),
                    Zero3)
    /\ twin = Fresh(1, t)
    /\ n = 0
    /\ total = 0
    /\ runs = 1

\* One pass through lines 53-71 with the power_output po.
LawStep(po) ==
  /\ total < MaxCalls
  /\ throttle' = AutoThrottle(system_engaged, R(0), initial_altitude, po,
                              WeightThrottle(call.g), throttle)
  /\ call' = [call EXCEPT !.op = "numerical_dynamics", !.ap = TRUE,
                          !.engaged = system_engaged, !.throttle0 = throttle,
                          !.po = po,
                          !.before = <<call.ap /\ call.engaged, call.g,
                                       call.po>>]
  /\ n' = n + 1
  /\ total' = total + 1
  /\ UNCHANGED <<scenario, position, velocity, orientation, delta_t, fuel,
                 parachute_status, stabilized_attitude, autopilot_enabled,
                 system_engaged, initial_altitude, first_iteration,
                 vel_engaged, previous_position, run, runs, twin>>

NextLaw == \E po \in LawPowers : LawStep(po)

SpecLaw == InitLaw /\ [][NextLaw]_vars

\* ------------------------------------------------------------- claims

\* What the autopilot of the latest numerical_dynamics call read: it runs
\* after the integration, on the position and velocity the call leaves.
H  == call.h
VR == call.vr
WT == WeightThrottle(call.g)

\* The latest operation was a numerical_dynamics call that ran the autopilot;
\* one that found the throttle sub-machine engaged, and so ran the throttle
\* law; one in which the engagement fired.
AutopilotRan  == call.op = "numerical_dynamics" /\ call.ap
EngagedCall   == AutopilotRan /\ call.engaged
EngagementNow == AutopilotRan /\ ~call.engaged /\ system_engaged

\* The three-branch saturation of the specification.
Saturated(po, wt) ==
  IF QLe(po, QNeg(wt)) THEN R(0)
  ELSE IF QLt(po, QSub(R(1), wt)) THEN QAdd(wt, po)
  ELSE R(1)

\* C1: after every engaged autopilot call, throttle is 0 when
\* power_output <= -weight_throttle, weight_throttle + power_output when
\* -weight_throttle < power_output < 1 - weight_throttle, and 1 otherwise.
C1_ThreeBranches == EngagedCall => throttle = Saturated(call.po, WT)

\* A step of numerical_dynamics, and a step that is not initialize_simulation.
DynamicsStep == total' = total + 1
SameRun      == runs' = runs

\* C2: throttle is within [0, 1] in every reachable state.
C2_ThrottleInRange == QLe(R(0), throttle) /\ QLe(throttle, R(1))

\* C2, witness: an engaged call whose power_output is at or beyond
\* 1 - weight_throttle has written the throttle.
C2_Witness ==
  EngagedCall /\ QLe(QSub(R(1), WT), call.po) /\ throttle = R(1)

\* C3: within a scenario run, once system_engaged is true it stays true and
\* vel_engaged keeps its value; system_engaged becomes true only in an
\* autopilot call that reads h < alt_engage, which stores that call's radial
\* velocity in vel_engaged; an autopilot call that leaves the sub-machine
\* disengaged read h >= alt_engage and did not write vel_engaged.
C3_Latch ==
  [][SameRun =>
       /\ system_engaged =>
            system_engaged' /\ vel_engaged' = vel_engaged
       /\ ~system_engaged /\ system_engaged' =>
            /\ DynamicsStep /\ call'.ap
            /\ QLt(H', AltEngage(initial_altitude))
            /\ vel_engaged' = VR'
       /\ ~system_engaged /\ ~system_engaged' =>
            /\ vel_engaged' = vel_engaged
            /\ DynamicsStep /\ call'.ap =>
                 QLe(AltEngage(initial_altitude), H')]_vars

\* C3, witness: an engaged call that read an altitude back above alt_engage
\* and a radial velocity other than the captured one.
C3_Witness ==
  EngagedCall /\ QLt(AltEngage(initial_altitude), H) /\ VR /= vel_engaged

\* C4: as long as safe_to_deploy_parachute() has returned true in no call of
\* the run, parachute_status is NOT_DEPLOYED.
C4_Gating == ~run.ever_safe => parachute_status = NOT_DEPLOYED

\* C4, witness: an engaged autopilot call below chute_engage has asked, and
\* the answer was false, as every answer of the run before.
C4_Witness ==
  EngagedCall /\ call.safe = "false" /\ ~run.ever_safe
  /\ QLt(H, ChuteEngage(initial_altitude))

\* C5: a numerical_dynamics call leaves parachute_status as it is, or takes
\* it from NOT_DEPLOYED to DEPLOYED in an autopilot call that read
\* h < chute_engage and whose safe_to_deploy_parachute() returned true.
C5_Terminal ==
  [][DynamicsStep =>
       \/ parachute_status' = parachute_status
       \/ /\ parachute_status = NOT_DEPLOYED
          /\ parachute_status' = DEPLOYED
          /\ call'.ap
          /\ QLt(H', ChuteEngage(initial_altitude))
          /\ call'.safe = "true"]_vars

\* C5, witness: an autopilot call below chute_engage that found the
\* parachute LOST.
C5_Witness ==
  AutopilotRan /\ call.status0 = LOST /\ parachute_status = LOST
  /\ QLt(H, ChuteEngage(initial_altitude))

\* C6: after every initialize_simulation, first_iteration is 1,
\* system_engaged is false and initial_altitude is the altitude of the
\* starting position.
C6_ResetTogether ==
  call.op = "initialize_simulation" =>
    /\ first_iteration = 1
    /\ ~system_engaged
    /\ initial_altitude = Altitude(position)

\* C7: an autopilot call that starts disengaged and reads h >= alt_engage
\* leaves throttle and system_engaged as they were.
C7_Untouched ==
  [][DynamicsStep /\ call'.ap /\ ~system_engaged
       /\ QLe(AltEngage(initial_altitude), H') =>
       throttle' = throttle /\ ~system_engaged']_vars

\* C7, witness: such a call, made at full throttle.
C7_Witness ==
  AutopilotRan /\ ~call.engaged /\ ~system_engaged
  /\ QLe(AltEngage(initial_altitude), H) /\ throttle = R(1)

\* C8 as stated: in scenario 1 started at throttle 0, throttle is strictly
\* between 0 and 1 at the end of the call in which the engagement fires.
C8_EngagementThrottle ==
  EngagementNow /\ scenario = 1 /\ run.throttle0 = R(0) =>
    QLt(R(0), throttle) /\ QLt(throttle, R(1))

\* C8, amended: in scenario 1 started at throttle 0, throttle is still 0 at
\* the end of the call in which the engagement fires.
C8_EngagementLeavesThrottle ==
  EngagementNow /\ scenario = 1 /\ run.throttle0 = R(0) => throttle = R(0)

\* C8, witness: the engagement has fired in scenario 1 started at throttle 0,
\* at an altitude below 5000 m.
C8_Witness ==
  EngagementNow /\ scenario = 1 /\ run.throttle0 = R(0) /\ QLt(H, R(5000))

\* p0 + 0.5 * a * t^2.
Kinematic(p0, a, t) == VAdd(p0, VScale(QMul(Q(1, 2), QMul(t, t)), a))

\* C9: from rest at p0 and under the constant acceleration a, the position
\* after n >= 1 integrator calls (the first the bootstrap, the later ones the
\* steady-state recurrence) is p0 + 0.5 * a * (n * delta_t)^2.
C9_Kinematics ==
  n >= 1 => position = Kinematic(run.position0, call.a, QMul(R(n), delta_t))

\* C9, witness: the bootstrap call and at least two steady-state calls have
\* run, with a time step that is not a whole number.
C9_Witness ==
  n >= 3 /\ first_iteration = 0 /\ delta_t = Q(1, 2)
  /\ position /= run.position0

\* b lies between p and q, which differ.
Straddle(p, q, b) ==
  p /= q /\ ((QLe(p, b) /\ QLe(b, q)) \/ (QLe(q, b) /\ QLe(b, p)))

\* C10: when two successive engaged calls under the same weight_throttle in
\* (0, 1) have their power_output values on either side of
\* -weight_throttle, or of 1 - weight_throttle, the throttle values they
\* write differ by no more than the two power_output values do.
C10_NoJump ==
  EngagedCall /\ call.before[1] /\ call.before[2] = call.g
  /\ QLt(R(0), WT) /\ QLt(WT, R(1))
  /\ (\/ Straddle(call.before[3], call.po, QNeg(WT))
      \/ Straddle(call.before[3], call.po, QSub(R(1), WT)))
  => QLe(QAbs(QSub(throttle, call.throttle0)),
         QAbs(QSub(call.po, call.before[3])))

\* C11: a scenario run gives the same position, velocity, throttle and
\* parachute_status after every call as the run of a program that has only
\* just started, given the same scenario, throttle, fuel, time step and
\* collaborator outputs, whatever was simulated before it: what the statics
\* previous_position and vel_engaged held is never read.
C11_Determinism ==
  /\ twin.position = position
  /\ twin.velocity = velocity
  /\ twin.throttle = throttle
  /\ twin.parachute_status = parachute_status

\* C11, witness: in a run that started with both statics holding values of
\* an earlier run, a call has run the engaged branch, which reads vel_engaged.
C11_Witness ==
  /\ run.stale
  /\ EngagedCall

C13_StepOrder ==
  [][DynamicsStep =>
       /\ \E gm \in GMags :
          \E g_force \in {GForce(gm, position)},
             t_force \in {ThrustWrtWorld(throttle, fuel, position)} :
            call'.a = Accel(g_force, call'.d, t_force, Mass(fuel))
       /\ autopilot_enabled =>
            /\ call'.h = Altitude(position')
            /\ call'.vr = VelRadial(velocity', position')
            /\ ~system_engaged /\ QLt(call'.h, AltEngage(initial_altitude))
                 => system_engaged'
       /\ ~autopilot_enabled =>
            UNCHANGED <<throttle, parachute_status, system_engaged>>
       /\ stabilized_attitude =>
            orientation' = AttitudeStabilization(position', orientation)
       /\ ~stabilized_attitude => orientation' = orientation]_vars

\* C13, witness: a call that ran the autopilot was entered with a throttle
\* an earlier call of the run had written, and has written another one.
C13_Witness ==
  /\ AutopilotRan
  /\ n >= 2
  /\ call.throttle0 /= run.throttle0
  /\ throttle /= call.throttle0

\* C14: after each initialize_simulation exactly the first numerical_dynamics
\* call takes the bootstrap branch: first_iteration is 1 until that call and
\* 0 after it, and every later call of the run takes the steady-state branch.
C14_Bootstrap ==
  /\ first_iteration = (IF n = 0 THEN 1 ELSE 0)
  /\ call.op = "numerical_dynamics" =>
       call.first = (IF n = 1 THEN 1 ELSE 0)

\* C14, witness: in a second run, started after calls of an earlier one, the
\* bootstrap call and a steady-state call have run.
C14_Witness ==
  /\ runs >= 2
  /\ total > n
  /\ n >= 2
  /\ call.op = "numerical_dynamics"
  /\ call.first = 0

\* C15: a steady-state call moves the lander by its previous displacement
\* plus a * delta_t^2, that is, the new position is
\* 2 * current - previous + a * delta_t^2; and after every call, bootstrap or
\* steady-state, previous_position is the position the call was entered with.
C15_Recurrence ==
  call.op = "numerical_dynamics" =>
    /\ previous_position = call.position0
    /\ call.first = 0 =>
         VSub(position, call.position0) =
           VAdd(VSub(call.position0, call.previous0),
                VScale(QMul(delta_t, delta_t), call.a))

\* C15, witness: a steady-state call has run under a nonzero acceleration,
\* entered with a position other than the one before it.
C15_Witness ==
  /\ call.op = "numerical_dynamics"
  /\ call.first = 0
  /\ call.a /= Zero3
  /\ call.previous0 /= call.position0
  /\ n >= 3

\* C16: every autopilot call entered with parachute_status NOT_DEPLOYED whose
\* altitude h is below chute_engage asks the safety check, and when the
\* check returns true parachute_status is DEPLOYED at the end of that call,
\* whether or not earlier checks of the run have failed and whether or not
\* the autopilot is engaged.
C16_Retest ==
  AutopilotRan /\ call.status0 = NOT_DEPLOYED
  /\ QLt(H, ChuteEngage(initial_altitude))
  => /\ call.safe /= "none"
     /\ call.safe = "true" => parachute_status = DEPLOYED

\* C16, witness: an engaged autopilot has deployed the parachute in a run in
\* which an earlier safety check had failed.
C16_Witness ==
  /\ EngagedCall
  /\ run.ever_failed
  /\ call.status0 = NOT_DEPLOYED
  /\ call.safe = "true"
  /\ parachute_status = DEPLOYED

\* C17: under a constant acceleration a and from any initial velocity v0,
\* the velocity after the n-th integrator call is v0 + n * a * delta_t, and
\* it is (new position - position before the call) / delta_t
\* + 0.5 * a * delta_t.
C17_VelocityExact ==
  n >= 1 =>
    /\ velocity = VAdd(run.velocity0, VScale(QMul(R(n), delta_t), call.a))
    /\ velocity = VAdd(VScale(QInv(delta_t), VSub(position, call.position0)),
                       VScale(QMul(Q(1, 2), delta_t), call.a))

\* C17, witness: the bootstrap call and at least two steady-state calls have
\* run from a nonzero initial velocity, with a time step that is not a whole
\* number.
C17_Witness ==
  /\ n >= 3
  /\ first_iteration = 0
  /\ run.velocity0 /= Zero3
  /\ delta_t = Q(1, 2)
  /\ velocity /= run.velocity0

\* The parachute's share of the drag (line 91), of magnitude dc.
ChuteDrag(dc, vel) == VScale(R(-dc), VNorm(vel))

\* C18: the drag of a numerical_dynamics call holds the parachute's share
\* exactly when parachute_status is DEPLOYED on entry to the call: entered
\* with NOT_DEPLOYED or LOST the call has the lander's drag alone, also when
\* its autopilot deploys the parachute, whose drag then first acts in the
\* next call.
C18_ChuteDrag ==
  call.op = "numerical_dynamics" =>
    IF call.status0 = DEPLOYED
    THEN \E dl \in DragMags, dc \in ChuteMags :
           call.d = VAdd(LanderDrag(dl, call.velocity0),
                         ChuteDrag(dc, call.velocity0))
    ELSE \E dl \in DragMags : call.d = LanderDrag(dl, call.velocity0)

\* C18, witness: a moving lander has been through a call entered with the
\* parachute deployed, by an earlier call of the run, and has had a drag.
C18_Witness ==
  /\ call.op = "numerical_dynamics"
  /\ n >= 2
  /\ call.status0 = DEPLOYED
  /\ call.velocity0 /= Zero3
  /\ call.d /= Zero3

=============================================================================
